---- MODULE Spec2Model ----
(***************************************************************************)
(* Model of hamodikk/bootstrap_go (src/main.go): population generation     *)
(* from the process-wide math/rand source, the estimators mean, median and *)
(* standardError, and the resampling loops bootstrap and                   *)
(* centralLimitTheorem.                                                    *)
(*                                                                         *)
(* float64 values are modelled exactly: a value is a rational n/d, or the  *)
(* square root of a rational (math.Sqrt is kept symbolic), or NaN, or an   *)
(* infinity.  Rounding is not modelled.  Slices are references into a heap *)
(* of backing arrays, so that an in-place sort is visible to every slice   *)
(* sharing the array.  The math/rand source is a deterministic generator   *)
(* with a finite state: Seed fixes the state, every draw advances it.      *)
(***************************************************************************)
EXTENDS Integers, Sequences, FiniteSets

\* ---------------------------------------------------------------- bounds
\* Largest size passed to generatePopulation.
MaxSize == 2
\* Largest bootstrapSamples / numSamples passed to bootstrap and centralLimitTheorem.
MaxSamples == 2
\* Largest sampleSize passed to bootstrap and centralLimitTheorem.
MaxSampleSize == 2
\* Largest length of a slice the caller hands directly to median / standardError.
MaxLen == 3
\* Values of the caller's slice are drawn from 0..MaxVal.
MaxVal == 2
\* The mean and stddev arguments passed to generatePopulation.
Means == {0, 1}
Stddevs == {0, 1}
\* Number of states of the modelled random source.
RngMod == 16

\* ---------------------------------------------------------------- float64
Abs(x) == IF x < 0 THEN -x ELSE x

RECURSIVE GCD(_, _)
GCD(a, b) == IF b = 0 THEN a ELSE GCD(b, a % b)

\* The float64 n/d (r = 1) or sqrt(n/d) (r = 2), in lowest terms with d > 0.
Num(n, d, r) ==
    LET s == IF d < 0 THEN -1 ELSE 1
        g == GCD(Abs(n), Abs(d))
    IN  [cls |-> "num", n |-> (s * n) \div g, d |-> (s * d) \div g, r |-> r]

NaN == [cls |-> "nan", n |-> 0, d |-> 1, r |-> 1]
\* +Inf (sign = 1) or -Inf (sign = -1).
Inf(sign) == [cls |-> "inf", n |-> sign, d |-> 1, r |-> 1]

\* float64(i)
FInt(i) == Num(i, 1, 1)

IsNaN(a) == a.cls = "nan"
IsNum(a) == a.cls = "num"
Sign(a) == IF a.n > 0 THEN 1 ELSE IF a.n < 0 THEN -1 ELSE 0

\* a + b on rationals; NaN propagates, Inf + (-Inf) is NaN.
FAdd(a, b) ==
    IF IsNaN(a) \/ IsNaN(b) THEN NaN
    ELSE IF a.cls = "inf" /\ b.cls = "inf" THEN (IF a.n = b.n THEN a ELSE NaN)
    ELSE IF a.cls = "inf" THEN a
    ELSE IF b.cls = "inf" THEN b
    ELSE Num(a.n * b.d + b.n * a.d, a.d * b.d, 1)

FNeg(a) == IF IsNum(a) THEN Num(-a.n, a.d, a.r) ELSE IF IsNaN(a) THEN NaN ELSE Inf(-a.n)

FSub(a, b) == FAdd(a, FNeg(b))

\* a * b on rationals; 0 * Inf is NaN.
FMul(a, b) ==
    IF IsNaN(a) \/ IsNaN(b) THEN NaN
    ELSE IF a.cls = "inf" \/ b.cls = "inf"
         THEN (IF Sign(a) * Sign(b) = 0 THEN NaN ELSE Inf(Sign(a) * Sign(b)))
    ELSE Num(a.n * b.n, a.d * b.d, 1)

\* a / b with IEEE-754 results for a zero divisor: 0/0 is NaN, x/0 is an infinity.
\* Both operands are rationals (r = 1) or both are square roots (r = 2).
FDiv(a, b) ==
    IF IsNaN(a) \/ IsNaN(b) THEN NaN
    ELSE IF a.cls = "inf" THEN (IF b.cls = "inf" THEN NaN ELSE a)
    ELSE IF b.cls = "inf" THEN Num(0, 1, a.r)
    ELSE IF b.n = 0 THEN (IF a.n = 0 THEN NaN ELSE Inf(Sign(a)))
    ELSE Num(a.n * b.d, a.d * b.n, a.r)

\* math.Pow(a, 2)
Pow2(a) == FMul(a, a)

\* math.Sqrt(a): NaN for a negative argument, symbolic otherwise.
Sqrt(a) ==
    IF IsNaN(a) THEN NaN
    ELSE IF a.cls = "inf" THEN (IF a.n > 0 THEN a ELSE NaN)
    ELSE IF a.n < 0 THEN NaN
    ELSE Num(a.n, a.d, 2)

\* a < b on rationals (false when either is NaN, as in Go).
FLess(a, b) ==
    IF IsNaN(a) \/ IsNaN(b) THEN FALSE
    ELSE IF a.cls = "inf" \/ b.cls = "inf"
         THEN (IF a.cls = "inf" /\ b.cls = "inf" THEN a.n < b.n
               ELSE IF a.cls = "inf" THEN a.n < 0 ELSE b.n > 0)
    ELSE a.n * b.d < b.n * a.d

\* a > 0
FPos(a) == a.cls # "nan" /\ a.n > 0

\* ---------------------------------------------------------------- math/rand
\* The process-wide source of math/rand: a deterministic generator whose state is
\* a number in 0..RngMod-1.  rand.Seed fixes the state from the seed alone; every
\* draw advances the state and returns a value computed from it.

\* seed := int64(42)
seed == 42

\* The state rand.Seed(s) leaves the source in.
Seed(s) == s % RngMod

\* One advance of the source.
Step(x) == (5 * x + 3) % RngMod

\* rand.NormFloat64() drawn in state x: the new state and the deviate (-1, 0 or 1).
NormFloat64(x) == [rng |-> Step(x), val |-> FInt((Step(x) % 3) - 1)]

\* rand.Intn(n) drawn in state x, n > 0: the new state and an index in 0..n-1.
Intn(x, n) == [rng |-> Step(x), val |-> (Step(x) * n) \div RngMod]

\* ---------------------------------------------------------------- heap
\* Backing arrays.  "population" is the driver's population, "data" the slice a
\* caller hands directly to an estimator, "sample" the array of the sample a
\* resampling loop allocates per iteration (empty between calls).
Arrays == {"population", "data", "sample"}

\* make([]float64, size): a zeroed array of length size.
Zeros(size) == [i \in 1..size |-> FInt(0)]

\* sample := population[:sampleSize] instead of a fresh array: the sample shares
\* the population's array.
makeSampleAliased == "population"

\* sample := make([]float64, sampleSize): the array the new slice refers to.
makeSample == "sample"

\* ---------------------------------------------------------------- sort
\* s with x inserted before the first element greater than x (s is sorted).
RECURSIVE Insert(_, _)
Insert(s, x) ==
    IF s = <<>> THEN <<x>>
    ELSE IF FLess(x, Head(s)) THEN <<x>> \o s
    ELSE <<Head(s)>> \o Insert(Tail(s), x)

\* sort.Float64s(data): data in increasing order.
RECURSIVE Float64s(_)
Float64s(data) ==
    IF data = <<>> THEN <<>>
    ELSE Insert(Float64s(SubSeq(data, 1, Len(data) - 1)), data[Len(data)])

\* ---------------------------------------------------------------- estimators
\* The element median returns from the sorted slice (Go index i is TLA+ index i+1).
medianOf(data) ==
    LET n == Len(data)
    IN  IF n % 2 = 0
        THEN FDiv(FAdd(data[n \div 2], data[n \div 2 + 1]), FInt(2))
        ELSE data[n \div 2 + 1]

\* median without its sort.
medianSortMissing(data) == data

\* What median does to the array its argument refers to: sort.Float64s(data).
medianSort(data) == Float64s(data)

\* median(data), data a slice of array a in heap h: the heap after the call (the
\* array is sorted in place), the outcome and the value returned.  An empty slice
\* indexes data[-1]: a run-time panic.
median(h, a) ==
    LET sorted(data) ==
            IF Len(data) = 0
            THEN [h |-> [h EXCEPT ![a] = data], out |-> "panic", val |-> NaN]
            ELSE [h |-> [h EXCEPT ![a] = data], out |-> "ok", val |-> medianOf(data)]
    IN  sorted(medianSort(h[a]))

\* sum += value over data[i..]
RECURSIVE SumFrom(_, _, _)
SumFrom(data, i, sum) ==
    IF i > Len(data) THEN sum ELSE SumFrom(data, i + 1, FAdd(sum, data[i]))

\* mean(data): sum / float64(len(data)); 0/0 = NaN for an empty slice.
mean(data) == FDiv(SumFrom(data, 1, FInt(0)), FInt(Len(data)))

\* The loop of standardError accumulating value-mean without squaring it.
RECURSIVE VarianceFromNoSquare(_, _, _, _)
VarianceFromNoSquare(data, m, i, variance) ==
    IF i > Len(data) THEN variance
    ELSE VarianceFromNoSquare(data, m, i + 1, FAdd(variance, FSub(data[i], m)))

\* variance += math.Pow(value-mean, 2) over data[i..]
RECURSIVE VarianceFrom(_, _, _, _)
VarianceFrom(data, m, i, variance) ==
    IF i > Len(data) THEN variance
    ELSE VarianceFrom(data, m, i + 1, FAdd(variance, Pow2(FSub(data[i], m))))

\* standardError(data): no length check; the divisions are float64 divisions.
standardError(data) ==
    LET variance == VarianceFrom(data, mean(data), 1, FInt(0))
        stdDev == Sqrt(FDiv(variance, FInt(Len(data) - 1)))
    IN  FDiv(stdDev, Sqrt(FInt(Len(data))))

\* ---------------------------------------------------------------- generatePopulation
\* generatePopulation without its rand.Seed call: the source stays as it was.
seedSourceMissing(x) == x

\* generatePopulation seeding from a value that differs from call to call (the
\* clock), x standing for that value.
seedSourceClock(x) == Seed(seed + x)

\* rand.Seed(seed) inside generatePopulation: the state of the source afterwards,
\* x being its state before.
seedSource(x) == Seed(seed)

\* for i := 0; i < size; i++ { population[i] = rand.NormFloat64()*stddev + mean }
RECURSIVE generateLoop(_, _, _, _, _, _)
generateLoop(x, i, size, m, stddev, population) ==
    IF i >= size THEN [rng |-> x, population |-> population]
    ELSE LET body(d) ==
                 generateLoop(d.rng, i + 1, size, m, stddev,
                     [population EXCEPT ![i + 1] = FAdd(FMul(d.val, FInt(stddev)), FInt(m))])
         IN  body(NormFloat64(x))

\* generatePopulation(size, mean, stddev) called with the source in state x.
\* make panics on a negative size, before the source is touched; there is no
\* other check of the arguments.
generatePopulation(x, size, m, stddev) ==
    IF size < 0
    THEN [out |-> "panic", rng |-> x, population |-> <<>>]
    ELSE LET return(l) == [out |-> "ok", rng |-> l.rng, population |-> l.population]
         IN  return(generateLoop(seedSource(x), 0, size, m, stddev, Zeros(size)))

\* ---------------------------------------------------------------- resampling
\* for j := 0; j < sampleSize; j++ { sample[j] = population[rand.Intn(len(population))] }
\* with sample a slice of array s and population a slice of array p.
RECURSIVE fillSample(_, _, _, _, _, _)
fillSample(h, x, s, p, j, sampleSize) ==
    IF j >= sampleSize THEN [h |-> h, rng |-> x]
    ELSE LET body(d) ==
                 fillSample([h EXCEPT ![s][j + 1] = h[p][d.val + 1]], d.rng, s, p, j + 1,
                            sampleSize)
         IN  body(Intn(x, Len(h[p])))

\* The loop of bootstrap, from iteration i.
RECURSIVE bootstrapLoop(_, _, _, _, _, _, _, _)
bootstrapLoop(h, x, p, i, bootstrapSamples, sampleSize, means, medians) ==
    IF i >= bootstrapSamples THEN [h |-> h, rng |-> x, means |-> means, medians |-> medians]
    ELSE LET s == makeSample
             \* f: the heap and the source once the sample is drawn; mn: mean(sample),
             \* taken before median(sample) sorts it; md: median(sample)
             rest(f, mn, md) ==
                 bootstrapLoop(md.h, f.rng, p, i + 1, bootstrapSamples, sampleSize,
                     [means EXCEPT ![i + 1] = mn], [medians EXCEPT ![i + 1] = md.val])
             body(f) == rest(f, mean(f.h[s]), median(f.h, s))
         IN  body(fillSample([h EXCEPT ![s] = Zeros(sampleSize)], x, s, p, 0, sampleSize))

\* bootstrap(population, bootstrapSamples, sampleSize), population a slice of
\* array p, both counts >= 1.  rand.Intn(0) panics on an empty population.  The
\* sample arrays are garbage once the call returns.
bootstrap(h, x, p, bootstrapSamples, sampleSize) ==
    IF Len(h[p]) = 0
    THEN [h |-> h, rng |-> x, out |-> "panic", seMean |-> NaN, seMedian |-> NaN,
          means |-> <<>>, medians |-> <<>>]
    ELSE LET return(l) ==
                 [h |-> [l.h EXCEPT !["sample"] = <<>>], rng |-> l.rng, out |-> "ok",
                  seMean |-> standardError(l.means), seMedian |-> standardError(l.medians),
                  means |-> l.means, medians |-> l.medians]
         IN  return(bootstrapLoop(h, x, p, 0, bootstrapSamples, sampleSize,
                                  Zeros(bootstrapSamples), Zeros(bootstrapSamples)))

\* The loop of centralLimitTheorem, from iteration i.
RECURSIVE cltLoop(_, _, _, _, _, _, _)
cltLoop(h, x, p, i, sampleSize, numSamples, sampleMeans) ==
    IF i >= numSamples THEN [h |-> h, rng |-> x, sampleMeans |-> sampleMeans]
    ELSE LET s == makeSample
             body(f) ==
                 cltLoop(f.h, f.rng, p, i + 1, sampleSize, numSamples,
                     [sampleMeans EXCEPT ![i + 1] = mean(f.h[s])])
         IN  body(fillSample([h EXCEPT ![s] = Zeros(sampleSize)], x, s, p, 0, sampleSize))

\* centralLimitTheorem(population, sampleSize, numSamples), both counts >= 1.
centralLimitTheorem(h, x, p, sampleSize, numSamples) ==
    IF Len(h[p]) = 0
    THEN [h |-> h, rng |-> x, out |-> "panic", seMean |-> NaN, sampleMeans |-> <<>>]
    ELSE LET return(l) ==
                 [h |-> [l.h EXCEPT !["sample"] = <<>>], rng |-> l.rng, out |-> "ok",
                  seMean |-> standardError(l.sampleMeans), sampleMeans |-> l.sampleMeans]
         IN  return(cltLoop(h, x, p, 0, sampleSize, numSamples, Zeros(numSamples)))

\* ---------------------------------------------------------------- state
VARIABLES
    heap,       \* array name -> contents
    rng,        \* state of the process-wide math/rand source
    last,       \* the last call: operation, arguments, outcome, results
    generated,  \* what the last successful generatePopulation returned
    run2        \* a second run of the program, started afresh, making the same
                \* calls with the same arguments

vars == <<heap, rng, last, generated, run2>>

\* A call as recorded in last.  prev is the operation called before it and its
\* outcome, inp the contents of the slice argument when the call was made, rng0
\* the state of the source then, res the float64 results, ret the slice
\* returned, aux the statistic distributions the results were computed from.
Call(op, args, inp, rng0, out, res, ret, aux) ==
    [op |-> op, prev |-> <<last.op, last.out>>, args |-> args, inp |-> inp, rng0 |-> rng0,
     out |-> out, res |-> res, ret |-> ret, aux |-> aux]

\* The second run: its source, its population, and the outcome of its last call.
\* apart: whether the sources of the two runs were in different states when
\* generatePopulation was last called (when the runs started, before any call).
Run2(x, population, out, res, ret, apart) ==
    [rng |-> x, population |-> population, out |-> out, res |-> res, ret |-> ret,
     apart |-> apart]

\* The heap of the second run.
heap2 == [heap EXCEPT !["population"] = run2.population]

\* The two runs are in the same state: the same call has the same effect in both.
InStep == run2.rng = rng /\ run2.population = heap["population"]

\* The slices a caller hands directly to median and standardError.
Inputs ==
    UNION {[1..k -> {FInt(v) : v \in 0..MaxVal}] : k \in 0..MaxLen}

\* The source has been seeded or drawn from by earlier code any number of times.
\* The second run starts with the source as math/rand leaves it when it was never
\* seeded, which is as if seeded with 1.
Init ==
    /\ heap = [a \in Arrays |-> <<>>]
    /\ rng \in 0..(RngMod - 1)
    /\ last = [op |-> "none", prev |-> <<"none", "ok">>, args |-> <<>>, inp |-> <<>>,
               rng0 |-> rng, out |-> "ok", res |-> <<>>, ret |-> <<>>, aux |-> <<>>]
    /\ generated = <<>>
    /\ run2 = Run2(Seed(1), <<>>, "ok", <<>>, <<>>, rng # Seed(1))

\* population := generatePopulation(size, mean, stddev)
GeneratePopulation ==
    \E size \in -1..MaxSize, m \in Means, stddev \in Stddevs :
        \E g \in {generatePopulation(rng, size, m, stddev)} :
        \E g2 \in {IF InStep THEN g ELSE generatePopulation(run2.rng, size, m, stddev)} :
            /\ rng' = g.rng
            /\ heap' = IF g.out = "ok" THEN [heap EXCEPT !["population"] = g.population]
                       ELSE heap
            /\ generated' = IF g.out = "ok" THEN g.population ELSE generated
            /\ last' = Call("generatePopulation", <<size, m, stddev>>, <<>>, rng, g.out,
                            <<>>, g.population, <<>>)
            /\ run2' = Run2(g2.rng, IF g2.out = "ok" THEN g2.population ELSE run2.population,
                            g2.out, <<>>, g2.population,
                            IF g.out = "ok" THEN rng # run2.rng ELSE run2.apart)

\* median(data) on a slice of the caller's
Median ==
    \E d \in Inputs :
        \E r \in {median([heap EXCEPT !["data"] = d], "data")} :
            /\ heap' = r.h
            /\ last' = Call("median", <<>>, d, rng, r.out, <<r.val>>, <<>>, <<>>)
            /\ UNCHANGED <<rng, generated, run2>>

\* standardError(data) on a slice of the caller's
StandardError ==
    \E d \in Inputs :
        /\ heap' = [heap EXCEPT !["data"] = d]
        /\ last' = Call("standardError", <<>>, d, rng, "ok", <<standardError(d)>>, <<>>, <<>>)
        /\ UNCHANGED <<rng, generated, run2>>

\* seMean, seMedian := bootstrap(population, bootstrapSamples, sampleSize)
Bootstrap ==
    \E bootstrapSamples \in 1..MaxSamples, sampleSize \in 1..MaxSampleSize :
        \E b \in {bootstrap(heap, rng, "population", bootstrapSamples, sampleSize)} :
        \E b2 \in {IF InStep THEN b
                    ELSE bootstrap(heap2, run2.rng, "population", bootstrapSamples, sampleSize)} :
            /\ heap' = b.h
            /\ rng' = b.rng
            /\ last' = Call("bootstrap", <<bootstrapSamples, sampleSize>>, heap["population"],
                            rng, b.out, <<b.seMean, b.seMedian>>, <<>>, <<b.means, b.medians>>)
            /\ run2' = Run2(b2.rng, b2.h["population"], b2.out, <<b2.seMean, b2.seMedian>>, <<>>,
                            run2.apart)
            /\ UNCHANGED generated

\* cltSeMean := centralLimitTheorem(population, sampleSize, numSamples)
CentralLimitTheorem ==
    \E sampleSize \in 1..MaxSampleSize, numSamples \in 1..MaxSamples :
        \E c \in {centralLimitTheorem(heap, rng, "population", sampleSize, numSamples)} :
        \E c2 \in {IF InStep THEN c
                    ELSE centralLimitTheorem(heap2, run2.rng, "population", sampleSize,
                                             numSamples)} :
            /\ heap' = c.h
            /\ rng' = c.rng
            /\ last' = Call("centralLimitTheorem", <<sampleSize, numSamples>>,
                            heap["population"], rng, c.out, <<c.seMean>>, <<>>, <<c.sampleMeans>>)
            /\ run2' = Run2(c2.rng, c2.h["population"], c2.out, <<c2.seMean>>, <<>>,
                            run2.apart)
            /\ UNCHANGED generated

\* The driver: generation and the two resampling procedures.
Next ==
    \/ GeneratePopulation
    \/ Bootstrap
    \/ CentralLimitTheorem

Spec == Init /\ [][Next]_vars

\* A caller of the estimators.
NextEstimators ==
    \/ Median
    \/ StandardError

\* The estimators neither read nor change the source: one state of it is enough.
InitEstimators == Init /\ rng = Seed(1)

SpecEstimators == InitEstimators /\ [][NextEstimators]_vars

\* ---------------------------------------------------------------- properties
IsGenerate == last.op = "generatePopulation"
IsResample == last.op \in {"bootstrap", "centralLimitTheorem"} /\ last.out = "ok"

\* The state of the source when generatePopulation(size, ...) returns, computed
\* from the seed alone.
AfterSeeding(size) == generateLoop(Seed(seed), 0, size, 0, 0, Zeros(size)).rng

\* The results of the call recorded in c had it been the first call after
\* generatePopulation returned the population it was given.
FirstAfterSeeding(c) ==
    LET h == [heap EXCEPT !["population"] = c.inp]
        x == AfterSeeding(Len(c.inp))
    IN  IF c.op = "bootstrap"
        THEN LET res(b) == <<b.seMean, b.seMedian>>
             IN  res(bootstrap(h, x, "population", c.args[1], c.args[2]))
        ELSE <<centralLimitTheorem(h, x, "population", c.args[1], c.args[2]).seMean>>

\* C1: the result of bootstrap and of centralLimitTheorem is the same whatever
\* calls ran before it since seeding: it is the result the same call gives when
\* it is the first call made after the population was generated.
C1_ReproducibleWhateverRanBefore ==
    IsResample => last.res = FirstAfterSeeding(last)

\* C2: median leaves the caller's slice as it was: same elements, same order.
C2_MedianDoesNotMutate ==
    last.op = "median" => heap["data"] = last.inp

\* C3: standardError on fewer than 2 elements fails with InsufficientData and
\* returns no NaN.
C3_InsufficientData ==
    (last.op = "standardError" /\ Len(last.inp) < 2)
        => (last.out = "InsufficientData" /\ ~IsNaN(last.res[1]))

\* C4: generatePopulation with size <= 0 fails with InvalidParameter instead of
\* returning a population.  A run-time panic is counted as a failure here, so
\* that the formula fails only where a population is returned.
C4_InvalidParameter ==
    (IsGenerate /\ last.args[1] <= 0) => last.out \in {"InvalidParameter", "panic"}

Range(data) == {data[i] : i \in 1..Len(data)}

\* The k-th smallest element of data, by rank: fewer than k elements are smaller
\* and at least k are no larger.
KthSmallest(data, k) ==
    CHOOSE v \in Range(data) :
        /\ Cardinality({i \in 1..Len(data) : FLess(data[i], v)}) < k
        /\ Cardinality({i \in 1..Len(data) : ~FLess(v, data[i])}) >= k

\* C6: for a non-empty input in any order median returns the middle element of
\* the sorted sequence when the length is odd, and the average of the two middle
\* elements when it is even.
C6_MedianIsMiddle ==
    (last.op = "median" /\ Len(last.inp) > 0) =>
        /\ last.out = "ok"
        /\ LET n == Len(last.inp)
           IN  last.res[1] =
                   IF n % 2 = 1 THEN KthSmallest(last.inp, (n + 1) \div 2)
                   ELSE FDiv(FAdd(KthSmallest(last.inp, n \div 2),
                                  KthSmallest(last.inp, n \div 2 + 1)), FInt(2))

\* median called on an input of odd length that is not in increasing order.
C6_Witness ==
    /\ last.op = "median" /\ Len(last.inp) >= 3 /\ Len(last.inp) % 2 = 1
    /\ last.inp # Float64s(last.inp)
    /\ last.out = "ok"

\* data holds two different values.
NonDegenerate(data) == Cardinality(Range(data)) > 1

\* A bootstrap call within the claim's precondition: a non-degenerate population,
\* bootstrapSamples >= 2, sampleSize >= 1.
BootstrapCase ==
    /\ last.op = "bootstrap" /\ last.out = "ok"
    /\ NonDegenerate(last.inp)
    /\ last.args[1] >= 2 /\ last.args[2] >= 1

\* C7 as stated: for a non-degenerate population, bootstrapSamples >= 2 and
\* sampleSize >= 1, bootstrap returns seMean > 0 and seMedian > 0 for every
\* outcome of the draws.
C7_BootstrapPositive ==
    BootstrapCase => (FPos(last.res[1]) /\ FPos(last.res[2]))

\* C7 amended: under the same precondition seMean and seMedian are numbers >= 0,
\* seMean > 0 whenever the resamples' means are not all equal and seMedian > 0
\* whenever their medians are not all equal.
C7_BootstrapNonNegative ==
    BootstrapCase =>
        /\ IsNum(last.res[1]) /\ last.res[1].n >= 0
        /\ IsNum(last.res[2]) /\ last.res[2].n >= 0
        /\ NonDegenerate(last.aux[1]) => FPos(last.res[1])
        /\ NonDegenerate(last.aux[2]) => FPos(last.res[2])

\* A bootstrap call within the precondition whose resamples differ in mean and
\* in median.
C7_Witness ==
    /\ BootstrapCase
    /\ NonDegenerate(last.aux[1]) /\ NonDegenerate(last.aux[2])
    /\ FPos(last.res[1]) /\ FPos(last.res[2])

\* C8: the population is never changed by bootstrap or centralLimitTheorem: it
\* holds the elements generatePopulation returned, in the same order.
C8_PopulationImmutable ==
    heap["population"] = generated

\* A bootstrap call with samples of two or more elements, sorted in place by
\* median, on a population that is not in increasing order.
C8_Witness ==
    /\ last.op = "bootstrap" /\ last.out = "ok" /\ last.args[2] >= 2
    /\ last.prev \in {<<"bootstrap", "ok">>, <<"centralLimitTheorem", "ok">>}
    /\ generated # Float64s(generated)
    /\ heap["population"] = generated

\* The standard deviation of data: sqrt(sum (value-mean)^2 / (n-1)).
StdDevOf(data) ==
    Sqrt(FDiv(VarianceFrom(data, mean(data), 1, FInt(0)), FInt(Len(data) - 1)))

\* C9: centralLimitTheorem returns the standard deviation of the sample means
\* it drew, the quantity that approaches populationStddev / sqrt(n) as numSamples
\* grows, and not a quantity that growing numSamples drives to 0.
C9_ReturnsStdDevOfSampleMeans ==
    (last.op = "centralLimitTheorem" /\ last.out = "ok" /\ last.args[2] >= 2)
        => last.res[1] = StdDevOf(last.aux[1])

====
